---------------------------- MODULE Spec2Model ----------------------------
(***************************************************************************)
(* Model of src/main.py: the bounded retry loop of                         *)
(* generate_prompt_with_chatgpt around is_safe_prompt, and the /post       *)
(* route run_bot_and_post that feeds its result to the image, summary,     *)
(* upload and tweet calls.                                                 *)
(*                                                                         *)
(* Texts are sequences of one-character strings, so that str.strip() and   *)
(* the comparison with the label "2" are modelled by what they do.         *)
(* The external services (OpenAI, Twitter, the image host) are             *)
(* nondeterministic: each call picks one of the responses the client       *)
(* library can hand back, an exception included.                           *)
(***************************************************************************)
EXTENDS Integers, Sequences, FiniteSets, TLC

\* ------------------------------------------------------------------ bounds
\* Largest `attempts` argument of a direct call.
MaxAttempts == 3
\* Longest raw completion text of the generator (characters).
MaxTextLen == 2
\* Longest raw completion text of the content filter (characters).
MaxLabelLen == 2

\* ------------------------------------------------------- program constants
\* def generate_prompt_with_chatgpt(attempts=3)
DefaultAttempts == 3
\* def summarize_prompt_with_chatgpt(original_prompt, max_length=300)
SummaryMaxLength == 300

\* The calls of one invocation are counted in genLog and clsLog; no
\* generator call is modelled beyond this many, whatever the loop does.
CallCap ==
    (IF MaxAttempts > DefaultAttempts THEN MaxAttempts ELSE DefaultAttempts) + 2

\* ------------------------------------------------------------------- texts
Whitespace == {" "}
TextAlphabet == {"a", " "}
LabelAlphabet == {"0", "1", "2", " "}

SeqsUpTo(S, n) == UNION {[1..k -> S] : k \in 0..n}

\* Raw completion texts the generator may return, before .strip().
RawTexts == SeqsUpTo(TextAlphabet, MaxTextLen)
\* Raw completion texts the content filter may return (max_tokens=1).
RawLabels == SeqsUpTo(LabelAlphabet, MaxLabelLen)

RECURSIVE LStrip(_)
LStrip(s) == IF s # <<>> /\ Head(s) \in Whitespace THEN LStrip(Tail(s)) ELSE s

RECURSIVE RStrip(_)
RStrip(s) ==
    IF s # <<>> /\ s[Len(s)] \in Whitespace
    THEN RStrip(SubSeq(s, 1, Len(s) - 1))
    ELSE s

\* str.strip(): leading and trailing whitespace removed, inner kept.
Strip(s) == RStrip(LStrip(s))

\* "Unable to generate a safe prompt after multiple attempts."
Fallback ==
    << "U", "n", "a", "b", "l", "e", " ", "t", "o", " ", "g", "e",
       "n", "e", "r", "a", "t", "e", " ", "a", " ", "s", "a", "f",
       "e", " ", "p", "r", "o", "m", "p", "t", " ", "a", "f", "t",
       "e", "r", " ", "m", "u", "l", "t", "i", "p", "l", "e", " ",
       "a", "t", "t", "e", "m", "p", "t", "s", "." >>

\* A local text variable that is not bound yet / a call that has not returned.
NoText == << "<unbound>" >>
\* The loop variable before the first iteration.
NoInt == -1
\* Python's None, for the string-valued results of the Twitter calls.
None == "None"
\* No exception.
NoError == "none"

\* ---------------------------------------------------------------- responses
\* Exceptions openai.Completion.create can raise, and the IndexError of
\* response.choices[0] on a response without choices.
ApiErrors == {"APIError", "IndexError"}

\* What one generator call hands back: an exception or a raw text.
GenResponses ==
    {[err |-> e, text |-> <<>>] : e \in ApiErrors}
        \cup {[err |-> NoError, text |-> t] : t \in RawTexts}

\* What one content-filter call hands back: an exception or a raw label.
ClsResponses ==
    {[err |-> e, text |-> <<>>] : e \in ApiErrors}
        \cup {[err |-> NoError, text |-> t] : t \in RawLabels}

\* The labels the content filter is documented to answer with: "0" safe,
\* "1" sensitive, "2" unsafe. The code names only "2" (line 39).
DocumentedLabels == {<< "0" >>, << "1" >>, << "2" >>}

\* What a content-filter call answered, as the call log keeps it: "raised",
\* the documented label it gave, or "malformed" for any other text.
Answered(resp) ==
    IF resp.err # NoError THEN "raised"
    ELSE IF Strip(resp.text) \in DocumentedLabels THEN Strip(resp.text)[1]
    ELSE "malformed"

\* is_safe_prompt with an except clause that lets the candidate through.
is_safe_prompt_FailOpen(resp) ==
    IF resp.err # NoError THEN TRUE ELSE Strip(resp.text) # << "2" >>

\* is_safe_prompt: any exception inside the try gives False; otherwise the
\* stripped label is compared with "2".
is_safe_prompt(resp) ==
    IF resp.err # NoError THEN FALSE ELSE Strip(resp.text) # << "2" >>

\* The loop with one iteration too many: range(attempts + 1).
ForLoopOffByOne(i, n) ==
    IF i <= n
    THEN [pc |-> "generate", attempt |-> i, it |-> i + 1, result |-> NoText]
    ELSE [pc |-> "returned", attempt |-> NoInt, it |-> i, result |-> Fallback]

\* The loop written as a while loop whose counter is never incremented.
ForLoopStuck(i, n) ==
    IF i < n
    THEN [pc |-> "generate", attempt |-> i, it |-> i, result |-> NoText]
    ELSE [pc |-> "returned", attempt |-> NoInt, it |-> i, result |-> Fallback]

\* for attempt in range(attempts): the next iteration, or the exit to the
\* return of the fallback string.
ForLoop(i, n) ==
    IF i < n
    THEN [pc |-> "generate", attempt |-> i, it |-> i + 1, result |-> NoText]
    ELSE [pc |-> "returned", attempt |-> NoInt, it |-> i, result |-> Fallback]

\* The generator call wrapped in a try that prints and retries.
AfterGeneratorSwallowed(resp) ==
    IF resp.err # NoError
    THEN [pc |-> "loop", generated_prompt |-> NoText, raised |-> NoError]
    ELSE [pc |-> "classify", generated_prompt |-> Strip(resp.text),
          raised |-> NoError]

\* An empty candidate regenerated without being classified.
AfterGeneratorSkipsEmpty(resp) ==
    IF resp.err # NoError
    THEN [pc |-> "raised", generated_prompt |-> NoText, raised |-> resp.err]
    ELSE [pc |-> IF Strip(resp.text) = <<>> THEN "loop" ELSE "classify",
          generated_prompt |-> Strip(resp.text), raised |-> NoError]

\* What follows the generator call: an exception leaves the function, a
\* text is stripped and goes to the classifier.
AfterGenerator(resp) ==
    IF resp.err # NoError
    THEN [pc |-> "raised", generated_prompt |-> NoText, raised |-> resp.err]
    ELSE [pc |-> "classify", generated_prompt |-> Strip(resp.text),
          raised |-> NoError]

\* The branch without its return: a safe verdict does not leave the loop.
AfterVerdictNoReturn(verdict, candidate) ==
    [pc |-> "loop", result |-> NoText]

\* if is_safe_prompt(generated_prompt): return generated_prompt  else: print
AfterVerdict(verdict, candidate) ==
    IF verdict
    THEN [pc |-> "returned", result |-> candidate]
    ELSE [pc |-> "loop", result |-> NoText]

\* -------------------------------------------------------------------- state
VARIABLES
    caller,            \* "none", "direct" (a call with an argument), "route"
    attempts,          \* the parameter of generate_prompt_with_chatgpt
    pc,                \* position in generate_prompt_with_chatgpt
    it,                \* position of the range iterator
    attempt,           \* the loop variable
    generated_prompt,  \* the local of that name
    result,            \* the value returned, NoText before the return
    raised,            \* the exception that left the function, or NoError
    genLog,            \* the generator calls of this invocation, in order
    clsLog,            \* the is_safe_prompt calls of this invocation
    rpc,               \* position in run_bot_and_post
    prompt, image_url, post_title, media_id, tweet_url,
    status, body,      \* the HTTP answer of the route
    calls              \* the downstream calls of this request, in order

loopVars == <<attempts, pc, it, attempt, generated_prompt, result, raised,
              genLog, clsLog>>
routeVars == <<rpc, prompt, image_url, post_title, media_id, tweet_url,
               status, body, calls>>
vars == <<caller, loopVars, routeVars>>

generatorCalls == Len(genLog)
classifierCalls == Len(clsLog)

NoTitle == [from |-> "none", of |-> NoText, truncated |-> FALSE]
NoBody == [status |-> 0, message |-> "none", error |-> NoError, link |-> None,
           prompt |-> NoText]

\* ------------------------------------------------ run_bot_and_post, by step
\* except Exception as e: return jsonify({"error": str(e)}), 500
RouteExcept(e) ==
    [status |-> 500, message |-> "error", error |-> e, link |-> None,
     prompt |-> NoText]

\* The route with a check of the sentinel: the fallback string ends the
\* request before any downstream call.
AfterPromptChecked(p) ==
    IF p = Fallback THEN [rpc |-> "responded", prompt |-> p]
    ELSE [rpc |-> "image", prompt |-> p]

\* prompt = generate_prompt_with_chatgpt(): the returned string is taken as
\* the prompt whatever it is, and the route goes on to the image call.
AfterPrompt(p) == [rpc |-> "image", prompt |-> p]

\* generate_image_with_dalle: the URL of the image, or the exception of
\* openai.Image.create / of the indexing of its response.
ImageOutcomes == {"url", "raise"}
generate_image_with_dalle(out) ==
    IF out = "raise"
    THEN [raised |-> "ImageError", image_url |-> None]
    ELSE [raised |-> NoError, image_url |-> "image-url"]

\* summarize_prompt_with_chatgpt: the summary (cut to max_length when the
\* model returned more), or on any exception the prompt itself, cut the
\* same way. It never raises.
SummaryOutcomes == {"short", "long", "raise"}
summarize_prompt_with_chatgpt(original_prompt, out) ==
    CASE out = "short" ->
            [from |-> "summary", of |-> original_prompt, truncated |-> FALSE]
      [] out = "long" ->
            [from |-> "summary", of |-> original_prompt, truncated |-> TRUE]
      [] OTHER ->
            [from |-> "prompt", of |-> original_prompt,
             truncated |-> Len(original_prompt) > SummaryMaxLength]

\* upload_media: requests.get / requests.post / response.json() may raise;
\* status 200 gives the media_id_string of the answer (None when the key
\* is missing); any other status gives None.
UploadOutcomes == {"raise", "ok_id", "ok_no_id", "http_error"}
upload_media(out) ==
    CASE out = "raise" -> [raised |-> "RequestException", media_id |-> None]
      [] out = "ok_id" -> [raised |-> NoError, media_id |-> "media-id"]
      [] OTHER -> [raised |-> NoError, media_id |-> None]

\* post_tweet_v2: the link on status 201, None on any other status and on
\* any exception (caught inside).
TweetOutcomes == {"created", "refused", "raise"}
post_tweet_v2(out) == IF out = "created" THEN "tweet-link" ELSE None

\* The route answering 500 when the tweet was not posted.
RespondFailureAs500(tweet, p) ==
    IF tweet # None
    THEN [status |-> 200, message |-> "posted", error |-> NoError,
          link |-> tweet, prompt |-> p]
    ELSE [status |-> 500, message |-> "not posted", error |-> NoError,
          link |-> None, prompt |-> p]

\* if tweet_url: return ..., 200   else: return ..., 200
Respond(tweet, p) ==
    IF tweet # None
    THEN [status |-> 200, message |-> "posted", error |-> NoError,
          link |-> tweet, prompt |-> p]
    ELSE [status |-> 200, message |-> "not posted", error |-> NoError,
          link |-> None, prompt |-> p]

Init ==
    /\ caller = "none"
    /\ attempts = 0
    /\ pc = "idle"
    /\ it = 0
    /\ attempt = NoInt
    /\ generated_prompt = NoText
    /\ result = NoText
    /\ raised = NoError
    /\ genLog = <<>>
    /\ clsLog = <<>>
    /\ rpc = "idle"
    /\ prompt = NoText
    /\ image_url = None
    /\ post_title = NoTitle
    /\ media_id = None
    /\ tweet_url = None
    /\ status = 0
    /\ body = NoBody
    /\ calls = <<>>

\* Nothing is running: no call of the function and no request in progress.
Quiet == pc \in {"idle", "returned", "raised"} /\ rpc \in {"idle", "responded"}

\* The fresh frame of a call of generate_prompt_with_chatgpt(n).
EnterFunction(n) ==
    /\ attempts' = n
    /\ pc' = "loop"
    /\ it' = 0
    /\ attempt' = NoInt
    /\ generated_prompt' = NoText
    /\ result' = NoText
    /\ raised' = NoError
    /\ genLog' = <<>>
    /\ clsLog' = <<>>

\* The fresh frame of a request to /post.
FreshRequest ==
    /\ prompt' = NoText
    /\ image_url' = None
    /\ post_title' = NoTitle
    /\ media_id' = None
    /\ tweet_url' = None
    /\ status' = 0
    /\ body' = NoBody
    /\ calls' = <<>>

\* The route's answer to an exception e that left a step of the try block.
Answer500(e) ==
    /\ rpc' = "responded"
    /\ status' = RouteExcept(e).status
    /\ body' = RouteExcept(e)

\* A direct call generate_prompt_with_chatgpt(n).
Invoke ==
    /\ Quiet
    /\ \E n \in 0..MaxAttempts : EnterFunction(n)
    /\ caller' = "direct"
    /\ rpc' = "idle"
    /\ FreshRequest

\* GET /post: run_bot_and_post calls generate_prompt_with_chatgpt().
Request ==
    /\ Quiet
    /\ EnterFunction(DefaultAttempts)
    /\ caller' = "route"
    /\ rpc' = "prompt"
    /\ FreshRequest

\* for attempt in range(attempts): ...   /   return "Unable to ..."
LoopNext ==
    /\ pc = "loop"
    /\ LET f == ForLoop(it, attempts) IN
        /\ pc' = f.pc
        /\ it' = f.it
        /\ attempt' = IF f.attempt = NoInt THEN attempt ELSE f.attempt
        /\ result' = f.result
    /\ UNCHANGED <<caller, attempts, generated_prompt, raised, genLog, clsLog,
                   routeVars>>

\* response = openai.Completion.create(...);
\* generated_prompt = response.choices[0].text.strip()
\* An exception leaves the function; under the route it is caught by the
\* except clause of run_bot_and_post, which answers 500.
GeneratorCall ==
    /\ pc = "generate"
    /\ generatorCalls < CallCap
    /\ \E resp \in GenResponses :
        LET g == AfterGenerator(resp) IN
        /\ pc' = g.pc
        /\ generated_prompt' =
              IF g.generated_prompt = NoText THEN generated_prompt
              ELSE g.generated_prompt
        /\ raised' = g.raised
        /\ genLog' = Append(genLog,
              [err |-> resp.err,
               candidate |-> IF resp.err # NoError THEN NoText
                             ELSE Strip(resp.text)])
        /\ IF caller = "route" /\ g.pc = "raised"
           THEN /\ Answer500(g.raised)
                /\ UNCHANGED <<prompt, image_url, post_title, media_id,
                               tweet_url, calls>>
           ELSE UNCHANGED routeVars
    /\ UNCHANGED <<caller, attempts, it, attempt, result, clsLog>>

\* if is_safe_prompt(generated_prompt): return generated_prompt
\* else: print(...)  and on to the next iteration
IsSafePromptCall ==
    /\ pc = "classify"
    /\ \E resp \in ClsResponses :
        LET verdict == is_safe_prompt(resp)
            b == AfterVerdict(verdict, generated_prompt)
        IN
        /\ pc' = b.pc
        /\ result' = b.result
        /\ clsLog' = Append(clsLog,
              [arg |-> generated_prompt,
               answered |-> Answered(resp),
               verdict |-> verdict])
    /\ UNCHANGED <<caller, attempts, it, attempt, generated_prompt, raised,
                   genLog, routeVars>>

\* prompt = generate_prompt_with_chatgpt()
ReceivePrompt ==
    /\ caller = "route"
    /\ rpc = "prompt"
    /\ pc = "returned"
    /\ rpc' = AfterPrompt(result).rpc
    /\ prompt' = AfterPrompt(result).prompt
    /\ UNCHANGED <<caller, loopVars, image_url, post_title, media_id,
                   tweet_url, status, body, calls>>

\* image_url = generate_image_with_dalle(prompt)
GenerateImage ==
    /\ rpc = "image"
    /\ calls' = Append(calls, [fn |-> "generate_image_with_dalle",
                               arg |-> prompt])
    /\ \E out \in ImageOutcomes :
        LET r == generate_image_with_dalle(out) IN
        IF r.raised # NoError
        THEN /\ Answer500(r.raised)
             /\ UNCHANGED image_url
        ELSE /\ image_url' = r.image_url
             /\ rpc' = "summarize"
             /\ UNCHANGED <<status, body>>
    /\ UNCHANGED <<caller, loopVars, prompt, post_title, media_id, tweet_url>>

\* post_title = summarize_prompt_with_chatgpt(prompt)
Summarize ==
    /\ rpc = "summarize"
    /\ calls' = Append(calls, [fn |-> "summarize_prompt_with_chatgpt",
                               arg |-> prompt])
    /\ \E out \in SummaryOutcomes :
        post_title' = summarize_prompt_with_chatgpt(prompt, out)
    /\ rpc' = "upload"
    /\ UNCHANGED <<caller, loopVars, prompt, image_url, media_id, tweet_url,
                   status, body>>

\* media_id = upload_media(image_url)
UploadMedia ==
    /\ rpc = "upload"
    /\ calls' = Append(calls, [fn |-> "upload_media", arg |-> <<image_url>>])
    /\ \E out \in UploadOutcomes :
        LET r == upload_media(out) IN
        IF r.raised # NoError
        THEN /\ Answer500(r.raised)
             /\ UNCHANGED media_id
        ELSE /\ media_id' = r.media_id
             /\ rpc' = "tweet"
             /\ UNCHANGED <<status, body>>
    /\ UNCHANGED <<caller, loopVars, prompt, image_url, post_title, tweet_url>>

\* tweet_url = post_tweet_v2(post_title, media_id), and the answer of the
\* route: 200 with or without the link.
PostTweet ==
    /\ rpc = "tweet"
    /\ calls' = Append(calls, [fn |-> "post_tweet_v2", arg |-> <<media_id>>])
    /\ \E out \in TweetOutcomes :
        /\ tweet_url' = post_tweet_v2(out)
        /\ body' = Respond(post_tweet_v2(out), prompt)
        /\ status' = Respond(post_tweet_v2(out), prompt).status
    /\ rpc' = "responded"
    /\ UNCHANGED <<caller, loopVars, prompt, image_url, post_title, media_id>>

Next ==
    \/ Invoke
    \/ Request
    \/ LoopNext
    \/ GeneratorCall
    \/ IsSafePromptCall
    \/ ReceivePrompt
    \/ GenerateImage
    \/ Summarize
    \/ UploadMedia
    \/ PostTweet

Spec == Init /\ [][Next]_vars

\* The calls return: every step of a running invocation or request is
\* eventually taken. Nothing obliges a new call or request to arrive.
Progress ==
    /\ WF_vars(LoopNext)
    /\ WF_vars(GeneratorCall)
    /\ WF_vars(IsSafePromptCall)
    /\ WF_vars(ReceivePrompt)
    /\ WF_vars(GenerateImage)
    /\ WF_vars(Summarize)
    /\ WF_vars(UploadMedia)
    /\ WF_vars(PostTweet)

FairSpec == Spec /\ Progress

TypeOK ==
    /\ caller \in {"none", "direct", "route"}
    /\ attempts \in 0..(MaxAttempts + DefaultAttempts)
    /\ pc \in {"idle", "loop", "generate", "classify", "returned", "raised"}
    /\ rpc \in {"idle", "prompt", "image", "summarize", "upload", "tweet",
                "responded"}
    /\ status \in {0, 200, 500}


\* ------------------------------------------------------------- properties
Running == pc \in {"loop", "generate", "classify"}
Ended == pc \in {"returned", "raised"}

\* Every classifier call so far rejected its candidate.
AllRejected == \A k \in 1..Len(clsLog) : ~clsLog[k].verdict
\* No generator call so far failed.
NoGeneratorError == \A k \in 1..Len(genLog) : genLog[k].err = NoError
\* The function returned a candidate the classifier let through.
Accepted ==
    pc = "returned" /\ Len(clsLog) > 0 /\ clsLog[Len(clsLog)].verdict

\* C1: with attempts = N >= 1 and every classifier call rejecting (and no
\* generator failure), the function does not end before N generator calls
\* and N classifier calls, and what it then returns is the fallback string.
C1_BoundedRetries ==
    (attempts >= 1 /\ AllRejected /\ NoGeneratorError) =>
        /\ pc # "raised"
        /\ generatorCalls <= attempts
        /\ classifierCalls <= attempts
        /\ pc = "returned" =>
            /\ generatorCalls = attempts
            /\ classifierCalls = attempts
            /\ result = Fallback
            /\ result # <<>>
            /\ \A k \in 1..Len(genLog) : result # genLog[k].candidate

C1_Witness ==
    /\ caller = "direct"
    /\ attempts = 3
    /\ pc = "returned"
    /\ AllRejected
    /\ generatorCalls = 3
    /\ classifierCalls = 3
    /\ result = Fallback

\* C2: the first safe verdict is the last call of the invocation: the k-th
\* candidate is returned, and there are k generator calls and k classifier
\* calls in all, k <= attempts.
C2_EarlyTermination ==
    \A k \in 1..Len(clsLog) :
        clsLog[k].verdict =>
            /\ k = Len(clsLog)
            /\ k = Len(genLog)
            /\ k <= attempts
            /\ pc = "returned"
            /\ raised = NoError
            /\ result = genLog[k].candidate

C2_Witness ==
    /\ attempts = 3
    /\ Len(clsLog) = 3
    /\ ~clsLog[1].verdict
    /\ ~clsLog[2].verdict
    /\ clsLog[3].verdict
    /\ genLog[3].candidate # genLog[2].candidate
    /\ result = genLog[3].candidate

\* C3: a classifier call that raised is a rejection: the verdict is False,
\* the attempt is used up, no exception leaves the function because of it,
\* and the loop goes on (or, on the last attempt, returns the fallback).
C3_FailClosedOnError ==
    /\ \A k \in 1..Len(clsLog) :
        clsLog[k].answered = "raised" =>
            /\ ~clsLog[k].verdict
            /\ k <= attempts
            /\ it >= k
            /\ (raised # NoError => genLog[Len(genLog)].err = raised)
            /\ (k = Len(clsLog) /\ k = Len(genLog)) =>
                \/ pc = "loop" /\ result = NoText
                \/ pc = "generate" /\ attempt = k /\ result = NoText
                \/ pc = "returned" /\ result = Fallback /\ k = attempts
    /\ (pc = "returned"
            /\ \A k \in 1..Len(clsLog) : clsLog[k].answered = "raised") =>
        result = Fallback /\ classifierCalls = attempts

C3_Witness ==
    /\ Len(clsLog) = 2
    /\ clsLog[1].answered = "raised"
    /\ clsLog[2].verdict
    /\ pc = "returned"
    /\ result = genLog[2].candidate

\* C4: a generator call that failed is the last call of the invocation: the
\* function is left by that exception, no classifier call was made for the
\* attempt, and nothing (the fallback string included) is returned.
C4_GeneratorFailure ==
    \A k \in 1..Len(genLog) :
        genLog[k].err # NoError =>
            /\ k = Len(genLog)
            /\ Len(clsLog) = k - 1
            /\ pc = "raised"
            /\ raised = genLog[k].err
            /\ result = NoText

C4_Witness ==
    /\ Len(genLog) = 2
    /\ genLog[2].err = "APIError"
    /\ Len(clsLog) = 1
    /\ pc = "raised"
    /\ raised = "APIError"

\* C5: an unsafe verdict, a raised error and a malformed or unrecognised
\* answer of the classifier all reject the candidate.
C5_UncertaintyRejects ==
    \A k \in 1..Len(clsLog) :
        clsLog[k].answered \in {"2", "raised", "malformed"} =>
            ~clsLog[k].verdict

\* C6: the generator calls and the classifier calls are each at most
\* attempts; the loop variable, once bound, is in 0..attempts-1, and it is
\* the number of attempts completed before the current one (so the first
\* attempt of an invocation has index 0).
C6_HardCap ==
    /\ generatorCalls <= attempts
    /\ classifierCalls <= attempts
    /\ attempt # NoInt => (0 <= attempt /\ attempt < attempts)
    /\ attempt = NoInt => (generatorCalls = 0 /\ classifierCalls = 0)
    /\ pc = "generate" => attempt = generatorCalls
    /\ pc = "classify" => attempt = classifierCalls

C6_Witness ==
    /\ attempts = 3
    /\ attempt = 2
    /\ generatorCalls = 3
    /\ classifierCalls = 3
    /\ pc = "loop"


\* The downstream calls of run_bot_and_post, in the order of the code.
Pipeline ==
    << "generate_image_with_dalle", "summarize_prompt_with_chatgpt",
       "upload_media", "post_tweet_v2" >>

\* The calls made so far are the first ones of the pipeline, in order.
CallsInOrder ==
    /\ Len(calls) <= Len(Pipeline)
    /\ \A i \in 1..Len(calls) : calls[i].fn = Pipeline[i]

\* C7: an answered request has status 200 exactly when the pipeline was run
\* to its end (the tweet call made, whether or not it gave a link, and
\* whether or not the upload gave a media id), and status 500 exactly when
\* an exception left prompt generation, image generation or the upload;
\* after a generator failure the answer is 500 with the error as its body
\* and no downstream call was made.
C7_HttpStatus ==
    /\ rpc = "responded" =>
        /\ CallsInOrder
        /\ status \in {200, 500}
        /\ status = 200 <=>
            (Len(calls) = 4 /\ calls[4].fn = "post_tweet_v2")
        /\ status = 200 =>
            /\ body.error = NoError
            /\ body.message = IF tweet_url = None THEN "not posted" ELSE "posted"
            /\ body.link = tweet_url
        /\ status = 500 <=>
            \/ pc = "raised" /\ calls = <<>>
            \/ Len(calls) = 1 /\ pc = "returned"
            \/ Len(calls) = 3 /\ pc = "returned"
        /\ status = 500 => body.message = "error" /\ body.error # NoError
    /\ (caller = "route" /\ pc = "raised") =>
        /\ rpc = "responded"
        /\ status = 500
        /\ body.error = raised
        /\ calls = <<>>

C7_Witness ==
    /\ rpc = "responded"
    /\ status = 200
    /\ media_id = None
    /\ tweet_url = None
    /\ Len(calls) = 4

\* C8: with every call returning, a running invocation (attempts = 0
\* included) ends, and it ends in exactly one of three ways: a candidate
\* accepted, the fallback string, or the generator's exception.
EndedOneWay ==
    /\ Ended
    /\ \/ Accepted /\ raised = NoError /\ result # Fallback /\ result # NoText
       \/ ~Accepted /\ pc = "returned" /\ raised = NoError /\ result = Fallback
       \/ ~Accepted /\ pc = "raised" /\ raised # NoError /\ result = NoText

C8_Termination == Running ~> EndedOneWay

C8_Witness ==
    /\ caller = "direct"
    /\ attempts = 0
    /\ pc = "returned"
    /\ result = Fallback
    /\ generatorCalls = 0
    /\ classifierCalls = 0

\* C9: generator and classifier calls alternate: classifierCalls <=
\* generatorCalls <= classifierCalls + 1; the k-th classifier call is on
\* the candidate of the k-th generator call; a generator call is due only
\* when every earlier candidate has its verdict; an accepted prompt is the
\* candidate of the last classifier call.
C9_Alternation ==
    /\ classifierCalls <= generatorCalls
    /\ generatorCalls <= classifierCalls + 1
    /\ \A k \in 1..Len(clsLog) :
        /\ genLog[k].err = NoError
        /\ clsLog[k].arg = genLog[k].candidate
    /\ pc = "generate" => generatorCalls = classifierCalls
    /\ pc = "classify" =>
        /\ generatorCalls = classifierCalls + 1
        /\ generated_prompt = genLog[Len(genLog)].candidate
    /\ Accepted => result = clsLog[Len(clsLog)].arg

C9_Witness ==
    /\ pc = "classify"
    /\ generatorCalls = 3
    /\ classifierCalls = 2
    /\ genLog[3].candidate # genLog[2].candidate

\* C10: when every attempt of a request was rejected, the route takes the
\* fallback string as the prompt and runs the pipeline with it: the image
\* call and the summary call get the fallback string, the calls come in
\* the order of the pipeline, the request is answered only after at least
\* the image call, and a 200 answer carries the fallback string as prompt.
C10_FallbackGoesOn ==
    (caller = "route" /\ pc = "returned" /\ AllRejected) =>
        /\ result = Fallback
        /\ rpc # "prompt" => prompt = Fallback
        /\ CallsInOrder
        /\ Len(calls) >= 1 => calls[1].arg = Fallback
        /\ Len(calls) >= 2 => calls[2].arg = Fallback
        /\ Len(calls) >= 2 => post_title.of = Fallback
        /\ rpc = "responded" => Len(calls) >= 1
        /\ status = 200 => (Len(calls) = 4 /\ body.prompt = Fallback)

C10_Witness ==
    /\ caller = "route"
    /\ classifierCalls = DefaultAttempts
    /\ AllRejected
    /\ result = Fallback
    /\ rpc = "responded"
    /\ status = 200
    /\ body.message = "posted"
    /\ body.prompt = Fallback
    /\ Len(calls) = 4

=============================================================================
